---- MODULE Spec2Model ----
(***************************************************************************)
(* The statement parser of rslint_parser (src/rslint_parser/src/syntax/    *)
(* stmt.rs) as a state machine.  The recursive-descent rules are run on an *)
(* explicit call stack: every rule of stmt.rs is one or more actions, cut   *)
(* at the places where the rule calls stmt, block_items, switch_clause,     *)
(* block_stmt, catch_clause, function_decl or semi.                         *)
(*                                                                         *)
(* The token cursor, the event sink, markers, ParserState, the expression   *)
(* and pattern parsers and the declaration parsers are other modules of the *)
(* crate; they are modelled as spec.md describes them (sections 3, 6, 9).   *)
(***************************************************************************)
EXTENDS Integers, Sequences, FiniteSets, TLC

VARIABLES
    tokens,  \* the token stream of the lexer, ending in EOF (never changes)
    p,       \* the Parser: cursor position, event sink, ParserState
    stack,   \* the call stack of rule activations, innermost last
    ret      \* the value returned by the activation that returned last

vars == <<tokens, p, stack, ret>>

(***************************************************************************)
(* Tokens.  Token i spans one column and is followed by one column of       *)
(* trivia; lb says that a linebreak precedes the token.                     *)
(***************************************************************************)
R(s, e) == [start |-> s, end |-> e]

Tk(k) == [kind |-> k, src |-> k, lb |-> FALSE]
Id(s) == [kind |-> "ident", src |-> s, lb |-> FALSE]
Str(s) == [kind |-> "string", src |-> s, lb |-> FALSE]
Num == [kind |-> "number", src |-> "1", lb |-> FALSE]
NL(t) == [t EXCEPT !.lb = TRUE]
EofTok(l) == [kind |-> "EOF", src |-> "", lb |-> l]

TokRange(i) ==
    IF tokens[i].kind = "EOF" THEN R(2 * (i - 1), 2 * (i - 1))
    ELSE R(2 * (i - 1), 2 * i - 1)

TokIndex(range) == (range.start \div 2) + 1

(***************************************************************************)
(* The token cursor (spec.md section 6, inbound interface).                 *)
(***************************************************************************)
nth(q, n) == IF q.pos + n > Len(tokens) THEN "EOF" ELSE tokens[q.pos + n].kind

cur(q) == nth(q, 0)

cur_src(q) == tokens[q.pos].src

cur_tok(q) == TokRange(q.pos)

has_linebreak_before_n(q, n) ==
    IF q.pos + n > Len(tokens) THEN FALSE ELSE tokens[q.pos + n].lb

at(q, k) == cur(q) = k

at_ts(q, set) == cur(q) \in set

nth_at(q, n, k) == nth(q, n) = k

(***************************************************************************)
(* The event sink and markers (spec.md sections 3 and 9).                   *)
(***************************************************************************)
StartEv(k) == [t |-> "Start", kind |-> k]

FinishEv == [t |-> "Finish"]

TokenEv(i) == [t |-> "Token", kind |-> tokens[i].kind, range |-> TokRange(i)]

Diag(msg, primary, secondary, help) ==
    [t |-> "Error", msg |-> msg, primary |-> primary, secondary |-> secondary,
     help |-> help]

\* The sink holds at most MaxEvents events; a diagnostic that does not fit
\* is dropped.
MaxEvents == 40

error(q, d) == IF Len(q.events) >= MaxEvents THEN q ELSE [q EXCEPT !.events = Append(@, d)]

bump_any(q) ==
    IF cur(q) = "EOF" THEN q
    ELSE [q EXCEPT !.pos = @ + 1, !.events = Append(@, TokenEv(q.pos))]

eat(q, k) == IF at(q, k) THEN bump_any(q) ELSE q

expect(q, k) ==
    IF at(q, k) THEN bump_any(q)
    ELSE error(q, Diag("Expected a token, but found another", cur_tok(q), <<>>, ""))

\* The index the next started marker gets.
Mark(q) == Len(q.events) + 1

start(q) == [q EXCEPT !.events = Append(@, StartEv("TOMBSTONE"))]

complete(q, m, kind) ==
    [q EXCEPT !.events = Append([@ EXCEPT ![m].kind = kind], FinishEv)]

\* The CompletedMarker of marker m once complete(_, m, kind) gave q.
Completed(q, m, kind) == [start_pos |-> m, finish_pos |-> Len(q.events), kind |-> kind]

\* The CompletedMarker that complete(q, m, kind) returns.
CompletedAt(q, m, kind) == [start_pos |-> m, finish_pos |-> Len(q.events) + 1, kind |-> kind]

\* A new marker just before the completed node; its index is cm.start_pos.
precede(q, cm) ==
    [q EXCEPT !.events = SubSeq(@, 1, cm.start_pos - 1) \o <<StartEv("TOMBSTONE")>>
                         \o SubSeq(@, cm.start_pos, Len(@))]

change_kind(q, cm, kind) == [q EXCEPT !.events[cm.start_pos].kind = kind]

\* The source range of a completed node: from its first to its last token.
marker_range(q, cm) ==
    LET toks == {i \in cm.start_pos..cm.finish_pos : q.events[i].t = "Token"}
        first == CHOOSE i \in toks : \A j \in toks : i <= j
        last == CHOOSE i \in toks : \A j \in toks : j <= i
    IN  IF toks = {} THEN R(cur_tok(q).start, cur_tok(q).start)
        ELSE R(q.events[first].range.start, q.events[last].range.end)

(***************************************************************************)
(* ParserState (spec.md section 3).  labels is a set of [name, range].      *)
(***************************************************************************)
DefaultState(module) ==
    [is_module |-> module, strict |-> FALSE, in_function |-> FALSE,
     in_async |-> FALSE, break_allowed |-> FALSE, continue_allowed |-> FALSE,
     labels |-> {}]

labels_get(st, name) == {l \in st.labels : l.name = name}

labels_insert(st, name, range) ==
    IF labels_get(st, name) # {} THEN st
    ELSE [st EXCEPT !.labels = @ \cup {[name |-> name, range |-> range]}]

iteration_stmt(st, set) == [st EXCEPT !.break_allowed = set, !.continue_allowed = set]

(***************************************************************************)
(* The expression parser, as far as the statement rules see it: a primary   *)
(* expression is a name or a literal.                                       *)
(***************************************************************************)
STARTS_EXPR == {"ident", "string", "number"}

NoneV == [some |-> FALSE]

SomeV(x) == [some |-> TRUE, v |-> x]

\* A sub-parser's result: the parser after it and the marker it returns.
node_result(q, m, kind) ==
    [q |-> complete(q, m, kind), m |-> SomeV(CompletedAt(q, m, kind))]

name_node(q) == complete(bump_any(start(q)), Mark(q), "NAME")

expr(q) ==
    IF at(q, "ident") THEN node_result(bump_any(start(q)), Mark(q), "NAME")
    ELSE IF at_ts(q, STARTS_EXPR) THEN node_result(bump_any(start(q)), Mark(q), "LITERAL")
    ELSE [q |-> error(q, Diag("Expected an expression, but found none",
                                cur_tok(q), <<>>, "")),
          m |-> NoneV]

assign_expr(q) == expr(q)

primary_expr(q) == expr(q)

(***************************************************************************)
(* The pattern parser and the checks of the utility layer, as the statement *)
(* rules see them.                                                          *)
(***************************************************************************)
RECURSIVE pattern_names(_)
pattern_names(q) ==
    IF at(q, "ident") THEN pattern_names(eat(name_node(q), ",")) ELSE q

compound_pattern(q, kind, close) ==
    node_result(expect(pattern_names(bump_any(start(q))), close), Mark(q), kind)

pattern(q) ==
    IF at(q, "ident") THEN node_result(name_node(start(q)), Mark(q), "SINGLE_PATTERN")
    ELSE IF at(q, "{") THEN compound_pattern(q, "OBJECT_PATTERN", "}")
    ELSE IF at(q, "[") THEN compound_pattern(q, "ARRAY_PATTERN", "]")
    ELSE [q |-> error(q, Diag("Expected an identifier or a pattern, but found none",
                                cur_tok(q), <<>>, "")),
          m |-> NoneV]

\* The text of the identifier of a completed NAME node.
name_text(q, cm) == tokens[TokIndex(q.events[cm.start_pos + 1].range)].src

check_label_use(q, label) ==
    IF labels_get(q.state, name_text(q, label)) = {}
    THEN error(q, Diag("Use of undefined statement label", marker_range(q, label), <<>>, ""))
    ELSE q

\* The names a completed VarDecl binds: its NAME nodes that are no initializer.
bound_names(q, cm) ==
    {i \in (cm.start_pos + 1)..cm.finish_pos :
        /\ q.events[i].t = "Start" /\ q.events[i].kind = "NAME"
        /\ ~(q.events[i - 1].t = "Token" /\ q.events[i - 1].kind = "=")}

bound_text(q, i) == tokens[TokIndex(q.events[i + 1].range)].src

is_lexical_decl(q, cm) ==
    /\ q.events[cm.start_pos + 1].t = "Token"
    /\ tokens[TokIndex(q.events[cm.start_pos + 1].range)].src \in {"let", "const"}

check_var_decl_bound_names(q, cm) ==
    IF /\ is_lexical_decl(q, cm)
       /\ \E i, j \in bound_names(q, cm) : i < j /\ bound_text(q, i) = bound_text(q, j)
    THEN error(q, Diag("Duplicate bound names in a declaration", marker_range(q, cm), <<>>, ""))
    ELSE IF is_lexical_decl(q, cm) /\ \E i \in bound_names(q, cm) : bound_text(q, i) = "let"
    THEN error(q, Diag("let cannot be declared as a variable name", marker_range(q, cm), <<>>, ""))
    ELSE q

\* util::check_for_stmt_declarators: one declarator, no initializer.
for_decl_count(q, decl) ==
    Cardinality({i \in (decl.start_pos + 1)..decl.finish_pos :
                    q.events[i].t = "Start" /\ q.events[i].kind = "DECLARATOR"})

for_decl_has_init(q, decl) ==
    \E i \in (decl.start_pos + 1)..decl.finish_pos :
        q.events[i].t = "Token" /\ q.events[i].kind = "="

check_for_stmt_initializers(q, q0, decl) ==
    IF for_decl_has_init(q0, decl)
    THEN error(q, Diag("For statement variable declarations cannot have initializers",
                        marker_range(q0, decl), <<>>, ""))
    ELSE q

check_for_stmt_declarators(q, decl) ==
    check_for_stmt_initializers(
        IF for_decl_count(q, decl) > 1
        THEN error(q, Diag("For statement variable declarations may only have one declaration",
                            marker_range(q, decl), <<>>, ""))
        ELSE q,
        q, decl)

\* util::check_lhs: the expression must be an assignment target.
check_lhs(q, cm) ==
    IF cm.kind # "NAME"
    THEN error(q, Diag("Invalid assignment target", marker_range(q, cm), <<>>, ""))
    ELSE q

(***************************************************************************)
(* ParserState::strict, Parser::err_recover, Parser::with_state             *)
(***************************************************************************)
\* The state becomes strict (and the program too when top_level).
strict(st, range, top_level) == [st EXCEPT !.strict = TRUE]

\* Report, then skip to a token of the set or to EOF.
RECURSIVE skip_until(_, _)
skip_until(q, set) ==
    IF at_ts(q, set) \/ at(q, "EOF") THEN q ELSE skip_until(bump_any(q), set)

recover(q, set) ==
    IF at_ts(q, set) \/ at(q, "EOF") THEN q
    ELSE complete(skip_until(start(q), set), Mark(q), "ERROR")

err_recover(q, d, set) == recover(error(q, d), set)

\* The derived state is installed and the guard keeps the original, which
\* comes back when the guard is dropped.
with_state(q, st) == [q EXCEPT !.state = st]

drop_guard(q, original_state) == [q EXCEPT !.state = original_state]

set_iteration(q, set) == [q EXCEPT !.state = iteration_stmt(@, set)]

(***************************************************************************)
(* The call stack.                                                          *)
(***************************************************************************)
Top == stack[Len(stack)]

Pop == SubSeq(stack, 1, Len(stack) - 1)

Running == stack # <<>>

In(rule, pc) == Running /\ Top.rule = rule /\ Top.pc = pc

StmtFrame == [rule |-> "stmt", pc |-> "entry"]

SemiFrame(err_range) == [rule |-> "semi", pc |-> "entry", err_range |-> err_range]

\* iter_pos and iter_state are history: the cursor and the state at the start
\* of the iteration of the loop that is under way.
BlockItemsFrame(q, directives, top_level) ==
    [rule |-> "block_items", pc |-> "loop", old |-> q.state,
     could_be_directive |-> directives, top_level |-> top_level,
     iter_pos |-> q.pos, iter_state |-> q.state]

BlockStmtFrame(function_body) ==
    [rule |-> "block_stmt", pc |-> "entry", function_body |-> function_body]

\* The activation on top returns value v with the parser left as q.
Return(q, v) ==
    /\ p' = q
    /\ ret' = v
    /\ stack' = Pop
    /\ UNCHANGED tokens

\* The activation on top completes marker m as kind and returns it.
ReturnNode(q, m, kind) == Return(complete(q, m, kind), SomeV(CompletedAt(q, m, kind)))

\* The activation on top goes on as cont and calls callee, the parser being q.
Enter(q, cont, callee) ==
    /\ p' = q
    /\ stack' = Pop \o <<cont, callee>>
    /\ UNCHANGED <<tokens, ret>>

\* The activation on top goes on as cont, the parser being q.
Goto(q, cont) ==
    /\ p' = q
    /\ stack' = Pop \o <<cont>>
    /\ UNCHANGED <<tokens, ret>>

\* The call semi(p, start..p.cur_tok().range.end).
CallSemi(q, cont, start_) == Enter(q, cont, SemiFrame(R(start_, cur_tok(q).end)))

(***************************************************************************)
(* stmt.rs                                                                  *)
(***************************************************************************)
STMT_RECOVERY_SET ==
    {"{", "var", "function", "if", "for", "do", "while", "continue", "break",
     "return", "with", "switch", "throw", "try", "debugger"}

FOLLOWS_LET == {"{", "[", "ident", "yield", "await"}

\* semi that reports a missing semicolon also after a linebreak.
semi_no_asi(q, err_range) ==
    IF at(q, ";") \/ at(q, "EOF") THEN eat(q, ";")
    ELSE error(q, Diag("Expected a semicolon or an implicit semicolon after a statement, but found none",
                        cur_tok(q), <<err_range>>, ""))

\* semi that takes the token it finds where a semicolon is inserted.
semi_takes_token(q, err_range) ==
    IF at(q, ";") \/ at(q, "EOF") THEN eat(q, ";")
    ELSE IF ~has_linebreak_before_n(q, 0)
         THEN error(q, Diag("Expected a semicolon or an implicit semicolon after a statement, but found none",
                             cur_tok(q), <<err_range>>, ""))
         ELSE bump_any(q)

semi(q, err_range) ==
    IF at(q, ";") \/ at(q, "EOF") THEN eat(q, ";")
    ELSE IF ~has_linebreak_before_n(q, 0)
         THEN error(q, Diag("Expected a semicolon or an implicit semicolon after a statement, but found none",
                             cur_tok(q), <<err_range>>, ""))
         ELSE q

Semi ==
    /\ In("semi", "entry")
    /\ Return(semi(p, Top.err_range), NoneV)

(***************************************************************************)
(* stmt: the arm of the match that the current token selects.               *)
(***************************************************************************)
KeywordArms ==
    {";", "{", "if", "with", "while", "var", "const", "for", "do", "switch",
     "try", "return", "break", "continue", "throw", "debugger", "function",
     "class"}

\* stmt that takes async function for a declaration across a linebreak too.
stmt_arm_any_async(q) ==
    IF cur(q) \in KeywordArms THEN cur(q)
    ELSE IF at(q, "ident") /\ cur_src(q) = "async" /\ nth_at(q, 1, "function")
         THEN "async"
    ELSE IF at(q, "ident") /\ cur_src(q) = "let" /\ nth(q, 1) \in FOLLOWS_LET
         THEN "let"
    ELSE IF at_ts(q, STARTS_EXPR) THEN "expr"
    ELSE "recover"

stmt_arm(q) ==
    IF cur(q) \in KeywordArms THEN cur(q)
    ELSE IF /\ at(q, "ident") /\ cur_src(q) = "async"
            /\ nth_at(q, 1, "function") /\ ~has_linebreak_before_n(q, 1)
         THEN "async"
    ELSE IF at(q, "ident") /\ cur_src(q) = "let" /\ nth(q, 1) \in FOLLOWS_LET
         THEN "let"
    ELSE IF at_ts(q, STARTS_EXPR) THEN "expr"
    ELSE "recover"

AtStmt(arms) == In("stmt", "entry") /\ stmt_arm(p) \in arms

(***************************************************************************)
(* stmt: expression statements, labelled statements, recovery               *)
(***************************************************************************)
\* A labelled statement that accepts a label that is declared already.
declare_label_silent(q, text, name_range) ==
    [q EXCEPT !.state = labels_insert(@, text, name_range)]

\* Lines 106-126: the label is reported as a duplicate or inserted.
declare_label(q, text, name_range) ==
    IF labels_get(q.state, text) # {}
    THEN error(q, Diag("Duplicate statement labels are not allowed", cur_tok(q),
                        <<(CHOOSE l \in labels_get(q.state, text) : TRUE).range>>, ""))
    ELSE [q EXCEPT !.state = labels_insert(@, text, name_range)]

\* Lines 102-134, given the expression parsed: up to the call of stmt or semi.
stmt_after_expr(q, cm, start_) ==
    IF cm.kind = "NAME" /\ at(q, ":")
    THEN [q |-> bump_any(precede(declare_label(q, name_text(q, cm),
                                               q.events[cm.start_pos + 1].range), cm)),
          labelled |-> TRUE, m |-> cm.start_pos, err_range |-> R(0, 0)]
    ELSE [q |-> precede(q, cm), labelled |-> FALSE, m |-> cm.start_pos,
          err_range |-> R(start_, cur_tok(q).end)]

stmt_expr_of(e, start_) == stmt_after_expr(e.q, e.m.v, start_)

\* Lines 99-134.
stmt_expr(q) == stmt_expr_of(expr(q), cur_tok(q).start)

StmtExprEnter(r) ==
    IF r.labelled
    THEN Enter(r.q, [rule |-> "stmt", pc |-> "labelled_after", m |-> r.m], StmtFrame)
    ELSE Enter(r.q, [rule |-> "stmt", pc |-> "expr_after_semi", m |-> r.m],
               SemiFrame(r.err_range))

StmtExpr ==
    /\ AtStmt({"expr"})
    /\ StmtExprEnter(stmt_expr(p))

\* Line 131.
StmtLabelledAfter ==
    /\ In("stmt", "labelled_after")
    /\ ReturnNode(p, Top.m, "LABELLED_STMT")

\* Line 135.
StmtExprAfterSemi ==
    /\ In("stmt", "expr_after_semi")
    /\ ReturnNode(p, Top.m, "EXPR_STMT")

\* Lines 138-145.
stmt_recover(q) ==
    err_recover(q, Diag("Expected a statement, but found none", cur_tok(q), <<>>, ""),
                STMT_RECOVERY_SET)

StmtRecover ==
    /\ AtStmt({"recover"})
    /\ Return(stmt_recover(p), NoneV)

(***************************************************************************)
(* empty_stmt, debugger_stmt                                                *)
(***************************************************************************)
EmptyStmt ==
    /\ AtStmt({";"})
    /\ ReturnNode(expect(start(p), ";"), Mark(p), "EMPTY_STMT")

DebuggerStmt ==
    /\ AtStmt({"debugger"})
    /\ Enter(expect(start(p), "debugger"),
             [rule |-> "debugger_stmt", pc |-> "after_semi", m |-> Mark(p)],
             SemiFrame(cur_tok(p)))

DebuggerAfterSemi ==
    /\ In("debugger_stmt", "after_semi")
    /\ ReturnNode(p, Top.m, "DEBUGGER_STMT")

(***************************************************************************)
(* throw_stmt                                                               *)
(***************************************************************************)
\* throw_stmt that reports the linebreak and parses the expression all the same.
throw_operand_lenient(q) ==
    IF has_linebreak_before_n(q, 0)
    THEN expr(error(q, Diag("Linebreaks between a throw statement and the error to be thrown are not allowed",
                             cur_tok(q),
                             IF at_ts(q, STARTS_EXPR) THEN <<cur_tok(q)>> ELSE <<>>, ""))).q
    ELSE expr(q).q

\* Lines 163-177.
throw_operand(q) ==
    IF has_linebreak_before_n(q, 0)
    THEN error(q, Diag("Linebreaks between a throw statement and the error to be thrown are not allowed",
                        cur_tok(q),
                        IF at_ts(q, STARTS_EXPR) THEN <<cur_tok(q)>> ELSE <<>>, ""))
    ELSE expr(q).q

\* Lines 160-177.
throw_head(q) == throw_operand(expect(start(q), "throw"))

ThrowStmt ==
    /\ AtStmt({"throw"})
    /\ CallSemi(throw_head(p), [rule |-> "throw_stmt", pc |-> "after_semi", m |-> Mark(p)],
                cur_tok(p).start)

ThrowAfterSemi ==
    /\ In("throw_stmt", "after_semi")
    /\ ReturnNode(p, Top.m, "THROW_STMT")

(***************************************************************************)
(* break_stmt, continue_stmt                                                *)
(***************************************************************************)
jump_label_use(label) == check_label_use(label.q, label.m.v)

\* Lines 187-190 and 212-215: the optional label.
jump_label(q) ==
    IF ~has_linebreak_before_n(q, 0) /\ at(q, "ident")
    THEN jump_label_use(primary_expr(q))
    ELSE q

\* Lines 184-190.
break_head(q) == jump_label(expect(start(q), "break"))

BreakStmt ==
    /\ AtStmt({"break"})
    /\ CallSemi(break_head(p),
                [rule |-> "break_stmt", pc |-> "after_semi", m |-> Mark(p),
                 start |-> cur_tok(p).start],
                cur_tok(p).start)

\* break_stmt that leaves its marker open when it reports the break.
break_tail_open(q, m, start_) ==
    IF ~q.state.break_allowed /\ q.state.labels = {}
    THEN error(q, Diag("Invalid break not inside of a switch, loop, or labelled statement",
                        R(start_, cur_tok(q).end), <<>>, ""))
    ELSE complete(q, m, "BREAK_STMT")

\* Lines 193-204.
break_tail(q, m, start_) ==
    complete(IF ~q.state.break_allowed /\ q.state.labels = {}
             THEN error(q, Diag("Invalid break not inside of a switch, loop, or labelled statement",
                                 R(start_, cur_tok(q).end), <<>>, ""))
             ELSE q,
             m, "BREAK_STMT")

BreakAfterSemi ==
    /\ In("break_stmt", "after_semi")
    /\ Return(break_tail(p, Top.m, Top.start),
              SomeV(Completed(break_tail(p, Top.m, Top.start), Top.m, "BREAK_STMT")))

\* Lines 209-215.
continue_head(q) == jump_label(expect(start(q), "continue"))

ContinueStmt ==
    /\ AtStmt({"continue"})
    /\ CallSemi(continue_head(p),
                [rule |-> "continue_stmt", pc |-> "after_semi", m |-> Mark(p),
                 start |-> cur_tok(p).start],
                cur_tok(p).start)

\* Lines 218-229.
continue_tail(q, m, start_) ==
    complete(IF ~q.state.continue_allowed
             THEN error(q, Diag("Invalid continue not inside of a loop",
                                 R(start_, cur_tok(q).end), <<>>, ""))
             ELSE q,
             m, "CONTINUE_STMT")

ContinueAfterSemi ==
    /\ In("continue_stmt", "after_semi")
    /\ Return(continue_tail(p, Top.m, Top.start),
              SomeV(Completed(continue_tail(p, Top.m, Top.start), Top.m, "CONTINUE_STMT")))

(***************************************************************************)
(* return_stmt                                                              *)
(***************************************************************************)
\* Lines 237-239.
return_operand(q) ==
    IF ~has_linebreak_before_n(q, 0) /\ at_ts(q, STARTS_EXPR) THEN expr(q).q ELSE q

\* Lines 234-239.
return_head(q) == return_operand(expect(start(q), "return"))

ReturnStmt ==
    /\ AtStmt({"return"})
    /\ CallSemi(return_head(p), [rule |-> "return_stmt", pc |-> "after_semi", m |-> Mark(p)],
                cur_tok(p).start)

\* The check of return_stmt with the current token as the primary span.
return_check_cur(q, complete_) ==
    IF ~q.state.in_function
    THEN error(q, Diag("Illegal return statement outside of a function", cur_tok(q), <<>>, ""))
    ELSE q

\* Lines 243-249, given the parser after m.complete and the completed marker.
return_check(q, complete_) ==
    IF ~q.state.in_function
    THEN error(q, Diag("Illegal return statement outside of a function",
                        marker_range(q, complete_), <<>>, ""))
    ELSE q

\* Lines 241-250.
return_tail(q, m) ==
    return_check(complete(q, m, "RETURN_STMT"), CompletedAt(q, m, "RETURN_STMT"))

ReturnAfterSemi ==
    /\ In("return_stmt", "after_semi")
    /\ Return(return_tail(p, Top.m), SomeV(CompletedAt(p, Top.m, "RETURN_STMT")))

(***************************************************************************)
(* var_decl, declarator                                                     *)
(***************************************************************************)
\* declarator that asks a const in a for head for an initializer too.
declarator_init_any_const(q, pat, is_const, for_stmt) ==
    IF at(q, "=") THEN assign_expr(eat(q, "=")).q
    ELSE IF pat.some
    THEN IF pat.v.kind # "SINGLE_PATTERN"
         THEN error(q, Diag("Object and Array patterns require initializers",
                             marker_range(q, pat.v), <<>>, ""))
         ELSE IF is_const.some
         THEN error(q, Diag("Const var declarations must have an initialized value",
                             marker_range(q, pat.v), <<>>, ""))
         ELSE q
    ELSE q

\* Lines 425-444, given the pattern parsed.
declarator_init(q, pat, is_const, for_stmt) ==
    IF at(q, "=") THEN assign_expr(eat(q, "=")).q
    ELSE IF pat.some
    THEN IF pat.v.kind # "SINGLE_PATTERN"
         THEN error(q, Diag("Object and Array patterns require initializers",
                             marker_range(q, pat.v), <<>>, ""))
         ELSE IF is_const.some /\ ~for_stmt
         THEN error(q, Diag("Const var declarations must have an initialized value",
                             marker_range(q, pat.v), <<>>, ""))
         ELSE q
    ELSE q

declarator_of(pat, is_const, for_stmt) == declarator_init(pat.q, pat.m, is_const, for_stmt)

declarator(q, is_const, for_stmt) ==
    complete(declarator_of(pattern(start(q)), is_const, for_stmt), Mark(q), "DECLARATOR")

\* Lines 403-410: one declarator, and one more after every comma.
RECURSIVE declarators(_, _, _)
RECURSIVE declarators_rest(_, _, _)
declarators_rest(q, is_const, for_stmt) ==
    IF at(q, ",") THEN declarators(eat(q, ","), is_const, for_stmt) ELSE q

declarators(q, is_const, for_stmt) ==
    declarators_rest(declarator(q, is_const, for_stmt), is_const, for_stmt)

\* Lines 385-401.
var_decl_keyword(q) ==
    IF at(q, "var") \/ at(q, "const") \/ (at(q, "ident") /\ cur_src(q) = "let")
    THEN bump_any(q)
    ELSE error(q, Diag("Expected var, let, or const for a variable declaration, but found none",
                        cur_tok(q), <<>>, ""))

\* Lines 381-410: the keyword and the declarators.
var_decl_head(q, no_semi) ==
    declarators(var_decl_keyword(start(q)),
                IF at(q, "const") THEN SomeV(cur_tok(q)) ELSE NoneV, no_semi)

\* Lines 415-417.
var_decl_tail(q, m) ==
    check_var_decl_bound_names(complete(q, m, "VAR_DECL"), CompletedAt(q, m, "VAR_DECL"))

var_decl_done(q, m) == [q |-> var_decl_tail(q, m), m |-> CompletedAt(q, m, "VAR_DECL")]

\* var_decl(p, true): no call of semi.
var_decl_no_semi(q) == var_decl_done(var_decl_head(q, TRUE), Mark(q))

\* The call semi(p, start..p.cur_tok().range.start) of line 413.
VarDeclSemi(q, cont, start_) == Enter(q, cont, SemiFrame(R(start_, cur_tok(q).start)))

VarDecl ==
    /\ AtStmt({"var", "const", "let"})
    /\ VarDeclSemi(var_decl_head(p, FALSE),
                   [rule |-> "var_decl", pc |-> "after_semi", m |-> Mark(p)],
                   cur_tok(p).start)

VarDeclAfterSemi ==
    /\ In("var_decl", "after_semi")
    /\ Return(var_decl_tail(p, Top.m), SomeV(CompletedAt(p, Top.m, "VAR_DECL")))

(***************************************************************************)
(* block_stmt                                                               *)
(***************************************************************************)
BlockEnter(q, m, function_body) ==
    Enter(q, [rule |-> "block_stmt", pc |-> "after_items", m |-> m, entry_state |-> q.state],
          BlockItemsFrame(q, function_body, FALSE))

BlockStmt ==
    /\ AtStmt({"{"}) \/ In("block_stmt", "entry")
    /\ BlockEnter(expect(start(p), "{"), Mark(p),
                  IF Top.rule = "stmt" THEN FALSE ELSE Top.function_body)

BlockStmtAfter ==
    /\ In("block_stmt", "after_items")
    /\ ReturnNode(expect(p, "}"), Top.m, "BLOCK_STMT")

(***************************************************************************)
(* condition, if_stmt, with_stmt, while_stmt, do_stmt                       *)
(***************************************************************************)
condition(q) ==
    complete(expect(expr(expect(start(q), "(")).q, ")"), Mark(q), "CONDITION")

IfStmt ==
    /\ AtStmt({"if"})
    /\ Enter(condition(expect(start(p), "if")),
             [rule |-> "if_stmt", pc |-> "after_then", m |-> Mark(p)], StmtFrame)

IfAfterThen ==
    /\ In("if_stmt", "after_then")
    /\ IF at(p, "else")
       THEN Enter(eat(p, "else"), [Top EXCEPT !.pc = "after_else"], StmtFrame)
       ELSE ReturnNode(p, Top.m, "IF_STMT")

IfAfterElse ==
    /\ In("if_stmt", "after_else")
    /\ ReturnNode(p, Top.m, "IF_STMT")

WithStmt ==
    /\ AtStmt({"with"})
    /\ Enter(condition(expect(start(p), "with")),
             [rule |-> "with_stmt", pc |-> "after_body", m |-> Mark(p)], StmtFrame)

WithAfter ==
    /\ In("with_stmt", "after_body")
    /\ ReturnNode(p, Top.m, "WITH_STMT")

\* Line 375: the state the body of a while statement is parsed under.
\* while_stmt building the state of its body from the default state.
while_body_state_fresh(st) ==
    [DefaultState(st.is_module) EXCEPT !.break_allowed = TRUE, !.continue_allowed = TRUE]

while_body_state(st) == [st EXCEPT !.break_allowed = TRUE, !.continue_allowed = TRUE]

WhileEnter(q, m) ==
    Enter(with_state(q, while_body_state(q.state)),
          [rule |-> "while_stmt", pc |-> "after_body", m |-> m, original_state |-> q.state],
          StmtFrame)

WhileStmt ==
    /\ AtStmt({"while"})
    /\ WhileEnter(condition(expect(start(p), "while")), Mark(p))

WhileAfter ==
    /\ In("while_stmt", "after_body")
    /\ ReturnNode(drop_guard(p, Top.original_state), Top.m, "WHILE_STMT")

\* Lines 451-453.
do_head(q) == set_iteration(expect(start(q), "do"), TRUE)

\* Lines 455-457.
do_tail(q) == condition(expect(set_iteration(q, FALSE), "while"))

DoStmt ==
    /\ AtStmt({"do"})
    /\ Enter(do_head(p), [rule |-> "do_stmt", pc |-> "after_body", m |-> Mark(p),
                        original_state |-> p.state],
             StmtFrame)

DoAfter ==
    /\ In("do_stmt", "after_body")
    /\ ReturnNode(do_tail(p), Top.m, "DO_WHILE_STMT")

(***************************************************************************)
(* function_decl (the declaration parser) and the two arms of stmt that     *)
(* call it.                                                                 *)
(***************************************************************************)
function_params(q) ==
    complete(expect(pattern_names(expect(start(q), "(")), ")"), Mark(q), "PARAMETER_LIST")

function_name(q) == IF at(q, "ident") THEN name_node(q) ELSE q

\* function, an optional name, the parameters.
function_head(q) == function_params(function_name(expect(q, "function")))

FunctionEnter(q, m) ==
    Enter(with_state(q, [q.state EXCEPT !.in_function = TRUE]),
          [rule |-> "function_decl", pc |-> "after_body", m |-> m,
           original_state |-> q.state],
          BlockStmtFrame(TRUE))

FunctionDecl ==
    /\ In("function_decl", "entry")
    /\ FunctionEnter(function_head(p), Top.m)

FunctionAfterBody ==
    /\ In("function_decl", "after_body")
    /\ ReturnNode(drop_guard(p, Top.original_state), Top.m, "FN_DECL")

\* Lines 74-78.
StmtFunction ==
    /\ AtStmt({"function"})
    /\ Goto(start(p), [rule |-> "function_decl", pc |-> "entry", m |-> Mark(p)])

\* A class declaration: class, an optional name and the body.
class_decl(q) ==
    complete(expect(expect(function_name(expect(start(q), "class")), "{"), "}"),
             Mark(q), "CLASS_DECL")

\* Lines 79-81.
StmtClass ==
    /\ AtStmt({"class"})
    /\ Return(class_decl(p), SomeV(Completed(class_decl(p), Mark(p), "CLASS_DECL")))

AsyncEnter(q, m) ==
    Enter(with_state(q, [q.state EXCEPT !.in_async = TRUE]),
          [rule |-> "stmt", pc |-> "async_after", original_state |-> q.state],
          [rule |-> "function_decl", pc |-> "entry", m |-> m])

\* Lines 82-96.
StmtAsync ==
    /\ AtStmt({"async"})
    /\ AsyncEnter(bump_any(start(p)), Mark(p))

StmtAsyncAfter ==
    /\ In("stmt", "async_after")
    /\ Return(drop_guard(p, Top.original_state), ret)

(***************************************************************************)
(* for_stmt and its heads                                                   *)
(***************************************************************************)
\* for_each_head that takes every head for a for-in head.
for_each_head_in(q, is_in) == [q |-> expr(q).q, kind |-> "FOR_IN_STMT"]

for_each_head(q, is_in) ==
    IF is_in THEN [q |-> expr(q).q, kind |-> "FOR_IN_STMT"]
    ELSE [q |-> assign_expr(q).q, kind |-> "FOR_OF_STMT"]

\* Lines 518-520.
normal_for_update(q) == IF ~at(q, ")") THEN expr(q).q ELSE q

normal_for_head(q) ==
    normal_for_update(IF at(q, ";") THEN eat(q, ";") ELSE expect(expr(q).q, ";"))

\* Lines 466-477, given the declaration parsed.
for_after_decl(q, decl) ==
    IF at(q, "in") \/ cur_src(q) = "of"
    THEN for_each_head(check_for_stmt_declarators(bump_any(q), decl), at(q, "in"))
    ELSE [q |-> normal_for_head(expect(q, ";")), kind |-> "FOR_STMT"]

for_decl_of(decl) == for_after_decl(decl.q, decl.m)

\* Lines 485-498, given the expression parsed.
for_after_expr(q, complete_) ==
    IF at(q, "in") \/ cur_src(q) = "of"
    THEN for_each_head(IF complete_.some THEN check_lhs(bump_any(q), complete_.v)
                       ELSE bump_any(q),
                       at(q, "in"))
    ELSE [q |-> normal_for_head(expect(q, ";")), kind |-> "FOR_STMT"]

for_expr_of(e) == for_after_expr(e.q, e.m)

for_head(q) ==
    IF at(q, "const") \/ at(q, "var") \/ (cur_src(q) = "let" /\ nth(q, 1) \in FOLLOWS_LET)
    THEN for_decl_of(var_decl_no_semi(q))
    ELSE IF at(q, ";") THEN [q |-> normal_for_head(eat(q, ";")), kind |-> "FOR_STMT"]
    ELSE for_expr_of(expr(q))

\* Lines 531-532, given what for_head returned.
for_body_state(h) == [q |-> set_iteration(expect(h.q, ")"), TRUE), kind |-> h.kind]

\* Lines 525-532: up to the call of stmt for the body.
for_stmt_head(q) ==
    for_body_state(for_head(expect(eat(expect(start(q), "for"), "await"), "(")))

\* Line 534.
for_stmt_tail(q) == set_iteration(q, FALSE)

ForEnter(h, m) ==
    Enter(h.q, [rule |-> "for_stmt", pc |-> "after_body", m |-> m, kind |-> h.kind,
                original_state |-> p.state],
          StmtFrame)

ForStmt ==
    /\ AtStmt({"for"})
    /\ ForEnter(for_stmt_head(p), Mark(p))

ForAfter ==
    /\ In("for_stmt", "after_body")
    /\ ReturnNode(for_stmt_tail(p), Top.m, Top.kind)

(***************************************************************************)
(* switch_clause, switch_stmt                                               *)
(***************************************************************************)
CLAUSE_END == {"default", "case", "}", "EOF"}

\* Lines 543-547.
DefaultClauseHead(q, start_) ==
    Goto(q, [rule |-> "switch_clause", pc |-> "default_loop",
             range |-> R(start_, cur_tok(q).end), iter_pos |-> p.pos])

\* Lines 540-547, 553-556, 561-574: up to the statement list of the clause.
SwitchClause ==
    /\ In("switch_clause", "entry")
    /\ IF at(p, "default")
       THEN DefaultClauseHead(expect(bump_any(p), ":"), cur_tok(p).start)
       ELSE IF at(p, "case")
       THEN Goto(expect(expr(bump_any(p)).q, ":"),
                 [rule |-> "switch_clause", pc |-> "case_loop", iter_pos |-> p.pos])
       ELSE Return(error(p, Diag("Expected a case or default clause in a switch statement, but found none",
                                  cur_tok(p), <<>>, "")),
                   NoneV)

\* Lines 548-551.
SwitchDefaultLoop ==
    /\ In("switch_clause", "default_loop")
    /\ IF ~at_ts(p, CLAUSE_END)
       THEN Enter(p, [Top EXCEPT !.iter_pos = p.pos], StmtFrame)
       ELSE Return(p, SomeV(Top.range))

\* Lines 557-559 and 574.
SwitchCaseLoop ==
    /\ In("switch_clause", "case_loop")
    /\ IF ~at_ts(p, CLAUSE_END)
       THEN Enter(p, [Top EXCEPT !.iter_pos = p.pos], StmtFrame)
       ELSE Return(p, NoneV)

\* Lines 586-590.
SwitchStmt ==
    /\ AtStmt({"switch"})
    /\ Goto(expect(condition(expect(start(p), "switch")), "{"),
            [rule |-> "switch_stmt", pc |-> "loop", m |-> Mark(p),
             first_default |-> NoneV])

\* Line 592: the guard of the loop.
switch_continue(q) == ~at(q, "EOF") /\ ~at(q, "}")

\* Line 593: the state a clause is parsed under.
clause_state(st) == [st EXCEPT !.break_allowed = TRUE]

\* Lines 592-594 and 612-613.
SwitchLoop ==
    /\ In("switch_stmt", "loop")
    /\ IF switch_continue(p)
       THEN Enter(with_state(p, clause_state(p.state)),
                  [rule |-> "switch_stmt", pc |-> "after_clause", m |-> Top.m,
                   first_default |-> Top.first_default, original_state |-> p.state,
                   iter_pos |-> p.pos],
                  [rule |-> "switch_clause", pc |-> "entry"])
       ELSE ReturnNode(expect(p, "}"), Top.m, "SWITCH_STMT")

\* The loop of switch_stmt remembering the latest default clause, not the first.
switch_after_clause_latest(q, range, first_default) ==
    IF range.some
    THEN IF first_default.some
         THEN [q |-> error(q, Diag("Multiple default clauses inside of a switch statement are not allowed",
                                    range.v, <<first_default.v>>, "")),
               first_default |-> range]
         ELSE [q |-> q, first_default |-> range]
    ELSE [q |-> q, first_default |-> first_default]

\* Lines 594-610: what the loop does with the range the clause returned.
switch_after_clause(q, range, first_default) ==
    IF range.some
    THEN IF first_default.some
         THEN [q |-> error(q, Diag("Multiple default clauses inside of a switch statement are not allowed",
                                    range.v, <<first_default.v>>, "")),
               first_default |-> first_default]
         ELSE [q |-> q, first_default |-> range]
    ELSE [q |-> q, first_default |-> first_default]

SwitchNextClause(r) ==
    Goto(drop_guard(r.q, Top.original_state),
         [rule |-> "switch_stmt", pc |-> "loop", m |-> Top.m,
          first_default |-> r.first_default])

SwitchAfterClause ==
    /\ In("switch_stmt", "after_clause")
    /\ SwitchNextClause(switch_after_clause(p, ret, Top.first_default))

(***************************************************************************)
(* catch_clause, try_stmt                                                   *)
(***************************************************************************)
\* catch_clause that parses a binding only after (.
catch_binding_paren(q, ate) ==
    IF ate
    THEN expect(IF ~at(q, "ident")
                THEN error(q, Diag("Expected an identifier for the error in a catch clause, but found none",
                                    cur_tok(q), <<>>, ""))
                ELSE name_node(q),
                ")")
    ELSE q

\* Lines 621-637, ate saying whether ( was eaten.
catch_binding(q, ate) ==
    IF ate \/ ~at(q, "{")
    THEN expect(IF ~at(q, "ident")
                THEN error(q, Diag("Expected an identifier for the error in a catch clause, but found none",
                                    cur_tok(q), <<>>, ""))
                ELSE name_node(q),
                ")")
    ELSE q

catch_after_kw(q) == catch_binding(eat(q, "("), at(q, "("))

\* Lines 617-637: up to the call of block_stmt.
catch_head(q) == catch_after_kw(expect(start(q), "catch"))

CatchClause ==
    /\ In("catch_clause", "entry")
    /\ Enter(catch_head(p), [rule |-> "catch_clause", pc |-> "after_block", m |-> Mark(p)],
             BlockStmtFrame(FALSE))

CatchAfterBlock ==
    /\ In("catch_clause", "after_block")
    /\ Return(complete(p, Top.m, "CATCH_CLAUSE"), NoneV)

TryStmt ==
    /\ AtStmt({"try"})
    /\ Enter(expect(start(p), "try"),
             [rule |-> "try_stmt", pc |-> "after_block", m |-> Mark(p)],
             BlockStmtFrame(FALSE))

\* Lines 656-658.
TryAfterBlock ==
    /\ In("try_stmt", "after_block")
    /\ IF at(p, "catch")
       THEN Enter(p, [Top EXCEPT !.pc = "after_catch"],
                  [rule |-> "catch_clause", pc |-> "entry"])
       ELSE Goto(p, [Top EXCEPT !.pc = "after_catch"])

\* Lines 659-665.
TryAfterCatch ==
    /\ In("try_stmt", "after_catch")
    /\ IF at(p, "finally")
       THEN Enter(bump_any(start(p)),
                  [rule |-> "try_stmt", pc |-> "after_finally", m |-> Top.m,
                   finalizer |-> Mark(p)],
                  BlockStmtFrame(FALSE))
       ELSE ReturnNode(p, Top.m, "TRY_STMT")

TryAfterFinally ==
    /\ In("try_stmt", "after_finally")
    /\ ReturnNode(complete(p, Top.finalizer, "FINALIZER"), Top.m, "TRY_STMT")

(***************************************************************************)
(* block_items                                                              *)
(***************************************************************************)
\* Line 276: the guard of the loop.
block_items_continue(q) == ~at(q, "EOF") /\ ~at(q, "}")

\* An import declaration: import, the module it names and a semicolon.
import_decl(q) ==
    node_result(eat(eat(expect(start(q), "import"), "string"), ";"), Mark(q), "IMPORT_DECL")

\* An export declaration: export, the name it exports and a semicolon.
export_decl(q) ==
    node_result(eat(eat(expect(start(q), "export"), "ident"), ";"), Mark(q), "EXPORT_DECL")

\* block_items that reports a module item in a script and keeps its kind.
module_item_keep_kind(r, msg) ==
    IF ~r.q.state.is_module
    THEN [q |-> error(r.q, Diag(msg, marker_range(r.q, r.m.v), <<>>,
                                "Note: the parser is configured for scripts, not modules")),
          m |-> r.m]
    ELSE r

\* Lines 280-287 and 291-298: a module item in a script is an error.
module_item(r, msg) ==
    IF ~r.q.state.is_module
    THEN [q |-> change_kind(error(r.q, Diag(msg, marker_range(r.q, r.m.v), <<>>,
                                            "Note: the parser is configured for scripts, not modules")),
                            r.m.v, "ERROR"),
          m |-> SomeV([r.m.v EXCEPT !.kind = "ERROR"])]
    ELSE r

\* The module item is what the iteration parsed.
BlockItemsModuleItem(r) ==
    /\ p' = r.q
    /\ ret' = r.m
    /\ stack' = Pop \o <<[Top EXCEPT !.pc = "after", !.iter_pos = p.pos,
                                      !.iter_state = p.state]>>
    /\ UNCHANGED tokens

\* block_items that leaves the state as the last item left it.
block_items_exit_keep(q, old) == q

\* Line 337.
block_items_exit(q, old) == [q EXCEPT !.state = old]

\* Lines 276-303 and 337.
BlockItemsLoop ==
    /\ In("block_items", "loop")
    /\ IF block_items_continue(p)
       THEN IF at(p, "import")
            THEN BlockItemsModuleItem(module_item(import_decl(p),
                     "Illegal use of an import declaration outside of a module"))
            ELSE IF at(p, "export")
            THEN BlockItemsModuleItem(module_item(export_decl(p),
                     "Illegal use of an export declaration outside of a module"))
            ELSE Enter(p, [Top EXCEPT !.pc = "after", !.iter_pos = p.pos,
                                      !.iter_state = p.state],
                       StmtFrame)
       ELSE Return(block_items_exit(p, Top.old), NoneV)

\* Lines 316-331: an expression statement in a block that may hold directives.
directive(q, cm, top_level) ==
    IF q.events[cm.start_pos + 1].t = "Start" /\ q.events[cm.start_pos + 1].kind = "LITERAL"
    THEN IF q.events[cm.start_pos + 2].kind = "string"
         THEN IF tokens[TokIndex(q.events[cm.start_pos + 2].range)].src = "use strict"
              THEN [q |-> [q EXCEPT !.state = strict(@, marker_range(q, cm), top_level)],
                    could_be_directive |-> FALSE]
              ELSE [q |-> q, could_be_directive |-> TRUE]
         ELSE [q |-> q, could_be_directive |-> FALSE]
    ELSE [q |-> q, could_be_directive |-> TRUE]

\* Lines 313-335: the directive prologue, given what the statement returned.
directive_step(q, complete_, could_be_directive, top_level) ==
    IF complete_.some /\ could_be_directive
    THEN IF complete_.v.kind = "EXPR_STMT"
         THEN directive(q, complete_.v, top_level)
         ELSE [q |-> q, could_be_directive |-> FALSE]
    ELSE [q |-> q, could_be_directive |-> could_be_directive]

BlockItemsNext(r) ==
    Goto(r.q, [Top EXCEPT !.pc = "loop", !.could_be_directive = r.could_be_directive])

BlockItemsAfter ==
    /\ In("block_items", "after")
    /\ BlockItemsNext(directive_step(p, ret, Top.could_be_directive, Top.top_level))

(***************************************************************************)
(* The driver: a program is the top-level items up to EOF.                  *)
(***************************************************************************)
Parse ==
    /\ In("parse", "entry")
    /\ Enter(start(p), [rule |-> "parse", pc |-> "after", m |-> Mark(p)],
             BlockItemsFrame(p, TRUE, TRUE))

ParseFinish ==
    /\ In("parse", "after")
    /\ ReturnNode(p, Top.m, IF p.state.is_module THEN "MODULE" ELSE "SCRIPT")

(***************************************************************************)
(* Inputs                                                                   *)
(***************************************************************************)
\* Programs that are valid both as a script and as a module.
ValidPrograms ==
    { <<Id("a")>>,
      <<Id("a"), NL(Id("b")), Tk(";")>>,
      <<Tk("{"), Id("a"), Tk(";"), Tk("}")>>,
      <<Tk("{"), Id("a"), Tk("}")>>,
      <<Id("a"), Tk(":"), Tk(";"), Id("a"), Tk(":"), Tk(";")>>,
      <<Id("a"), Tk(":"), Tk("while"), Tk("("), Id("b"), Tk(")"), Tk("{"), Tk("continue"), Id("a"), Tk(";"), Tk("break"), Id("a"), Tk(";"), Tk("}")>>,
      <<Tk("while"), Tk("("), Id("a"), Tk(")"), Tk("{"), Tk("for"), Tk("("), Tk(";"), Tk(";"), Tk(")"), Tk(";"), Tk("break"), Tk(";"), Tk("}")>>,
      <<Tk("switch"), Tk("("), Id("x"), Tk(")"), Tk("{"), Tk("case"), Num, Tk(":"), Tk("default"), Tk(":"), Tk("break"), Tk(";"), Tk("}")>>,
      <<Tk("var"), Id("a"), Tk("="), Num, Tk(","), Id("b"), Tk(";")>>,
      <<Tk("function"), Id("f"), Tk("("), Tk(")"), Tk("{"), Tk("return"), Tk(";"), Tk("}")>> }

\* for-in and for-of statements over one declarator without initializer.
ForEachPrograms ==
    { <<Tk("for"), Tk("("), Tk("var"), Id("x"), Tk("in"), Id("y"), Tk(")"), Tk(";")>>,
      <<Tk("for"), Tk("("), Tk("const"), Id("x"), Id("of"), Id("y"), Tk(")"), Tk(";")>>,
      <<Tk("for"), Tk("("), Id("let"), Id("x"), Id("of"), Id("y"), Tk(")"), Tk("{"), Tk("}")>>,
      <<Tk("for"), Tk("("), Id("let"), Tk("{"), Id("x"), Tk("}"), Id("of"), Id("y"), Tk(")"), Tk(";")>>,
      <<Tk("for"), Tk("("), Tk("var"), Tk("["), Id("x"), Tk("]"), Tk("in"), Id("y"), Tk(")"), Tk(";")>> }

Corpus ==
    { <<Tk(";")>>,
      <<Id("async"), NL(Tk("function")), Id("f"), Tk("("), Tk(")"), Tk("{"), Tk("}")>>,
      <<Id("async"), Tk("function"), Id("f"), Tk("("), Tk(")"), Tk("{"), Tk("while"), Tk("("), Id("a"), Tk(")"), Tk(";"), Id("a"), Tk(";"), Tk("}"), Id("async"), Tk(";")>>,
      <<Id("a"), Tk("function"), Id("f"), Tk("("), Tk(")"), Tk("{"), Tk("}")>>,
      <<Tk("try"), Tk("{"), Tk("}"), Tk("catch"), Id("a"), Tk(")"), Tk("{"), Tk("}")>>,
      <<Tk("try"), Tk("{"), Tk("}"), Tk("catch"), Tk("("), Tk(")"), Tk("{"), Tk("}")>>,
      <<Tk("try"), Tk("{"), Tk("}"), Tk("catch"), Tk(")"), Tk("{"), Tk("}")>>,
      <<Tk("try"), Tk("{"), Tk("}"), Tk("catch"), Tk("{"), Id("a"), Tk("}"), Tk("finally"), Tk("{"), Tk("}")>>,
      <<Tk("try"), Tk("{"), Tk("}"), Tk("catch"), Tk("("), Id("a"), Tk(")"), Tk("{"), Tk("}")>>,
      <<Tk("try"), Tk("{"), Tk("}"), Tk("catch"), Tk("("), Num, Tk("{"), Tk("}")>>,
      <<Tk("try"), Tk("{"), Tk("}"), Tk("catch")>>,
      <<Tk("for"), Id("of"), Id("of"), Id("of"), Tk(";")>>,
      <<Tk("for"), Tk("("), Tk("var"), Id("a"), Tk("="), Id("b"), Tk(","), Id("c"), Tk("in"), Id("y"), Tk(")"), Tk(";")>>,
      <<Tk("for"), Tk("("), Tk("var"), Id("a"), Tk(";"), Id("of"), Tk(";"), Tk(")"), Tk("{"), Tk("}")>>,
      <<Tk("for"), Tk("("), Tk("in"), Id("y"), Tk(")"), Tk(";")>>,
      <<Tk("for"), Tk("("), Tk(";"), Tk("in"), Tk(";"), Tk(")"), Tk(";")>>,
      <<Tk("for"), Tk("("), Id("a"), Tk("in"), Id("b"), Tk(";")>>,
      <<Tk("for"), Tk("("), Id("a"), Id("b"), Id("of"), Tk(")"), Tk(";")>>,
      <<Tk("const"), Tk(";")>>,
      <<Tk("const"), Id("a"), Tk(";")>>,
      <<Tk("const"), Id("a"), Tk("="), Id("b"), Tk(","), Tk("{"), Id("c"), Tk("}"), Tk(","), Id("d"), Tk(";")>>,
      <<Tk("var"), Tk("["), Id("a"), Tk("]"), Tk("="), Id("b"), Tk(","), Id("c"), Tk(";")>>,
      <<Tk("for"), Tk("("), Tk("const"), Id("x"), Tk(";"), Tk(";"), Tk(")"), Tk(";")>>,
      <<Tk("switch"), Tk("("), Id("x"), Tk(")"), Tk("{"), Tk("case"), Num, Tk(":"), Tk("for"), Tk("("), Tk(";"), Tk(";"), Tk(")"), Tk(";"), Tk("break"), Tk(";"), Tk("}")>>,
      <<Tk("switch"), Tk("("), Id("x"), Tk(")"), Tk("{"), Tk("default"), Tk(":"), Tk("continue"), Tk(";"), Tk("break"), Tk(";"), Tk("}")>>,
      <<Tk("function"), Id("f"), Tk("("), Tk(")"), Tk("{"), Str("use strict"), Tk(";"), Id("a"), Tk(":"), Tk(";"), Tk("}")>>,
      <<Id("a"), Tk(":"), Tk(";"), Tk("break"), Tk(";")>>,
      <<Tk("break"), Tk(";"), Id("a"), Tk(";")>>,
      <<Tk("continue"), NL(Id("a")), Tk(";")>>,
      <<Id("a"), Tk(";")>>,
      <<Id("a"), Tk(":"), Id("b"), Tk(";"), Id("a"), Tk(":"), Tk(";")>>,
      <<Str("use strict"), Tk(";"), Id("a")>>,
      <<Tk(")"), Tk(";")>>,
      <<Tk("for"), Tk("("), Tk(";"), Tk(";"), Tk(")"), Tk(";")>>,
      <<Tk("for"), Tk("("), Id("let"), Id("x"), Id("of"), Id("y"), Tk(")"), Tk(";")>>,
      <<Tk("for"), Tk("("), Id("x"), Tk("in"), Id("y"), Tk(")"), Tk(";")>>,
      <<Tk("for"), Tk("("), Tk("var"), Id("x"), Tk("="), Num, Tk(";"), Id("x"), Tk(";"), Id("x"), Tk(")"), Tk(";")>>,
      <<Tk("switch"), Tk("("), Id("x"), Tk(")"), Tk("{"), Tk("default"), Tk(":"), Num, Tk(";"), Tk("default"), Tk(":"), Num, Tk(";"), Tk("}")>>,
      <<Tk("switch"), Tk("("), Id("x"), Tk(")"), Tk("{"), Tk("case"), Num, Tk(":"), Tk("break"), Tk(";"), Tk("}")>>,
      <<Tk("try"), Tk("{"), Tk("}"), Tk("catch"), Tk("("), Id("e"), Tk(")"), Tk("{"), Tk("}"), Tk("finally"), Tk("{"), Tk("}")>>,
      <<Tk("try"), Tk("{"), Tk("}"), Tk("finally"), Tk("{"), Tk("}")>>,
      <<Tk("try"), Tk("{"), Tk("}"), Tk("catch"), Tk("{"), Tk("}")>>,
      <<Tk("{"), Id("a"), Tk("}"), Tk("if"), Tk("("), Id("a"), Tk(")"), Tk(";"), Tk("else"), Tk(";")>>,
      <<Tk("if"), Tk("("), Id("a"), Tk(")"), Tk(";"), Tk("with"), Tk("("), Id("a"), Tk(")"), Tk(";")>>,
      <<Tk("while"), Tk("("), Id("a"), Tk(")"), Tk("{"), Tk("break"), Tk(";"), Tk("}")>>,
      <<Tk("do"), Tk("continue"), Tk(";"), Tk("while"), Tk("("), Id("a"), Tk(")"), Tk("break"), Tk(";")>>,
      <<Tk("function"), Id("f"), Tk("("), Id("a"), Tk(")"), Tk("{"), Str("use strict"), Tk(";"), Tk("return"), Id("a"), Tk(";"), Tk("}")>>,
      <<Id("async"), Tk("function"), Id("f"), Tk("("), Tk(")"), Tk("{"), Tk("}")>>,
      <<Tk("debugger"), Tk("throw"), Id("a"), Tk("throw"), NL(Id("a")), Tk(";")>>,
      <<Tk("break"), Id("a"), Tk("continue"), NL(Tk("return")), Num>>,
      <<Tk("var"), Id("a"), Tk("="), Num, Tk(","), Id("a"), Tk(";")>>,
      <<Tk("const"), Id("a"), Tk(","), Tk("{"), Id("a"), Tk("}"), Id("let"), Id("let"), Tk(";")>>,
      <<Tk("switch"), Tk("("), Id("x"), Tk(")"), Tk("{"), Tk("default"), Tk(":"), Tk("default"), Tk(":"), Tk(";"), Tk("case"), Num, Tk(":"), Tk("default"), Tk(":"), Tk("}"), Tk("return"), Id("a"), Tk(";")>>,
      <<Tk("switch"), Tk("("), Id("x"), Tk(")"), Tk("{"), Tk("default"), Tk(":"), Tk("switch"), Tk("("), Id("x"), Tk(")"), Tk("{"), Tk("default"), Tk(":"), Tk("default"), Tk(":"), Tk("}"), Tk("default"), Tk(":"), Tk("}")>>,
      <<Tk("import"), Str("m"), Tk(";"), Tk("export"), Id("a"), Tk(";")>>,
      <<Tk("class"), Id("a"), Tk("{"), Tk("}"), Tk("class"), Tk("{")>>,
      <<Id("a"), Tk(":"), Id("a"), Tk(":"), Tk(";")>>,
      <<Id("a"), Tk(";"), Str("use strict"), Tk(";"), Tk("with"), Tk("("), Id("a"), Tk(")"), Tk(";")>>,
      <<Tk("function"), Id("f"), Tk("("), Tk(")"), Tk("{"), Tk(")"), Str("use strict"), Tk(";"), Tk("}")>>,
      <<Str("a"), Tk(";"), Str("use strict"), Tk(";"), Tk("with"), Tk("("), Id("a"), Tk(")"), Tk("while"), Tk("("), Id("a"), Tk(")"), Tk("{"), Id("a"), Tk(";"), Tk("}")>>,
      <<Tk("}"), Tk(";")>> }
    \cup ValidPrograms \cup ForEachPrograms

\* Every sequence of at most MaxLen tokens of the alphabet, alone and as the
\* body of a block, a function, a loop and a switch.
MaxLen == 2

Alphabet ==
    {Tk(";"), Id("a"), NL(Id("a")), Tk("{"), Tk("}"), Tk(":"), Tk("break"),
     Tk("return"), Tk("default"), Tk("continue")}

Sequences == UNION {[1..k -> Alphabet] : k \in 0..MaxLen}

Contexts ==
    { [pre |-> <<>>, post |-> <<>>],
      [pre |-> <<Tk("{")>>, post |-> <<Tk("}")>>],
      [pre |-> <<Tk("function"), Id("f"), Tk("("), Tk(")"), Tk("{")>>, post |-> <<Tk("}")>>],
      [pre |-> <<Tk("while"), Tk("("), Id("a"), Tk(")"), Tk("{")>>, post |-> <<Tk("}")>>],
      [pre |-> <<Tk("switch"), Tk("("), Id("a"), Tk(")"), Tk("{")>>, post |-> <<Tk("}")>>] }

Generated == {c.pre \o g \o c.post : c \in Contexts, g \in Sequences}

\* An input: the tokens before EOF, whether a linebreak precedes EOF, and
\* whether the file is parsed as a module.
Inputs ==
    {[body |-> b, lb |-> FALSE, module |-> FALSE] : b \in Generated}
    \cup {[body |-> b, lb |-> l, module |-> m] : b \in Corpus, l \in BOOLEAN, m \in BOOLEAN}

Init ==
    /\ \E i \in Inputs :
          /\ tokens = i.body \o <<EofTok(i.lb)>>
          /\ p = [pos |-> 1, events |-> <<>>, state |-> DefaultState(i.module)]
    /\ stack = <<[rule |-> "parse", pc |-> "entry"]>>
    /\ ret = NoneV

Next ==
    \/ Parse
    \/ ParseFinish
    \/ BlockItemsLoop
    \/ BlockItemsAfter
    \/ StmtExpr
    \/ StmtLabelledAfter
    \/ StmtExprAfterSemi
    \/ StmtRecover
    \/ Semi
    \/ EmptyStmt
    \/ DebuggerStmt
    \/ DebuggerAfterSemi
    \/ ThrowStmt
    \/ ThrowAfterSemi
    \/ BreakStmt
    \/ BreakAfterSemi
    \/ ContinueStmt
    \/ ContinueAfterSemi
    \/ ReturnStmt
    \/ ReturnAfterSemi
    \/ VarDecl
    \/ VarDeclAfterSemi
    \/ BlockStmt
    \/ BlockStmtAfter
    \/ IfStmt
    \/ IfAfterThen
    \/ IfAfterElse
    \/ WithStmt
    \/ WithAfter
    \/ WhileStmt
    \/ WhileAfter
    \/ DoStmt
    \/ DoAfter
    \/ FunctionDecl
    \/ FunctionAfterBody
    \/ StmtFunction
    \/ StmtClass
    \/ StmtAsync
    \/ StmtAsyncAfter
    \/ ForStmt
    \/ ForAfter
    \/ SwitchClause
    \/ SwitchDefaultLoop
    \/ SwitchCaseLoop
    \/ SwitchStmt
    \/ SwitchLoop
    \/ SwitchAfterClause
    \/ CatchClause
    \/ CatchAfterBlock
    \/ TryStmt
    \/ TryAfterBlock
    \/ TryAfterCatch
    \/ TryAfterFinally

Spec == Init /\ [][Next]_vars

(***************************************************************************)
(* Properties.                                                              *)
(***************************************************************************)
Done == stack = <<>>

Body == SubSeq(tokens, 1, Len(tokens) - 1)

IsToken(e) == e.t = "Token"

IsError(e) == e.t = "Error"

HasMsg(e, msg) == e.t = "Error" /\ e.msg = msg

TokenEvents(q) == SelectSeq(q.events, IsToken)

Errors(q) == SelectSeq(q.events, IsError)

\* The nesting depth after the first n events.
Depth(evs, n) ==
    Cardinality({i \in 1..n : evs[i].t = "Start"})
    - Cardinality({i \in 1..n : evs[i].t = "Finish"})

\* C1: when the top-level block_items run returns, the cursor is at EOF and
\* the sink holds one Token event for every token before EOF, in source
\* order -- also when the input has stray } tokens at the top level.
Lossless ==
    In("parse", "after") =>
        /\ cur(p) = "EOF"
        /\ TokenEvents(p) = [i \in 1..(Len(tokens) - 1) |-> TokenEv(i)]

\* C2: every iteration of the loops of block_items, switch_stmt and
\* switch_clause consumes at least one token or makes the guard of the loop
\* false, also when the token in a switch body starts no clause.
LoopsProgress ==
    /\ In("block_items", "after") => p.pos > Top.iter_pos \/ ~block_items_continue(p)
    /\ In("switch_stmt", "after_clause") => p.pos > Top.iter_pos \/ ~switch_continue(p)
    /\ In("switch_clause", "default_loop") => p.pos > Top.iter_pos \/ at_ts(p, CLAUSE_END)
    /\ In("switch_clause", "case_loop") => p.pos > Top.iter_pos \/ at_ts(p, CLAUSE_END)

\* The markers the activations on the stack hold open.
OpenMarkers ==
    Cardinality({i \in 1..Len(stack) : "m" \in DOMAIN stack[i]})
    + Cardinality({i \in 1..Len(stack) : "finalizer" \in DOMAIN stack[i]})

\* C3: the events are balanced: at every moment the nodes that are open are
\* the markers that running rules still hold, and when the parse ends no
\* prefix of the events has more Finish than Start events, every Start has
\* its Finish and every Start carries a kind.
Balanced ==
    /\ Depth(p.events, Len(p.events)) = OpenMarkers
    /\ Done =>
          /\ \A n \in 1..Len(p.events) : Depth(p.events, n) >= 0
          /\ Depth(p.events, Len(p.events)) = 0
          /\ \A i \in 1..Len(p.events) :
                p.events[i].t = "Start" => p.events[i].kind # "TOMBSTONE"

BalancedWitness ==
    /\ Done
    /\ \E i \in 1..Len(p.events) : HasMsg(p.events[i], "Expected a statement, but found none")
    /\ \E i \in 1..Len(p.events) : p.events[i].t = "Start" /\ p.events[i].kind = "BREAK_STMT"

\* C4: when a call of stmt made by the top-level block_items returns, the
\* parser state is the state the call was entered with.
StateBalance ==
    In("block_items", "after") /\ Top.top_level => p.state = Top.iter_state

\* The label a labelled statement declares, from the activation that waits
\* for its body.
LabelOf(f) == tokens[TokIndex(p.events[f.m + 2].range)].src

\* A labelled statement has just completed and returned.
JustLabelled ==
    /\ ret.some /\ "kind" \in DOMAIN ret.v /\ ret.v.kind = "LABELLED_STMT"
    /\ Len(p.events) = ret.v.finish_pos

Enclosing(L) ==
    {i \in 1..Len(stack) :
        stack[i].rule = "stmt" /\ stack[i].pc = "labelled_after" /\ LabelOf(stack[i]) = L}

\* C5: while the sub-statement of a labelled statement is parsed its label is
\* in the label map, and once the labelled statement completes the label is
\* not in the map, unless an enclosing labelled statement declares it too.
LabelScoping ==
    /\ \A i \in 1..Len(stack) :
          stack[i].rule = "stmt" /\ stack[i].pc = "labelled_after" =>
              labels_get(p.state, LabelOf(stack[i])) # {}
    /\ JustLabelled /\ Enclosing(LabelOf([m |-> ret.v.start_pos])) = {} =>
          labels_get(p.state, LabelOf([m |-> ret.v.start_pos])) = {}

\* C6: a program that is valid makes the parse emit no Error event.
NoFalseDiagnostics ==
    Done /\ Body \in ValidPrograms => Errors(p) = <<>>

SemiMsg == "Expected a semicolon or an implicit semicolon after a statement, but found none"

\* C7: semi emits its diagnostic exactly when the current token is not ;, is
\* not EOF and has no linebreak before it; the diagnostic has the range of the
\* current token as primary span and the given err_range as secondary span.
SemiDiagnostic ==
    [][In("semi", "entry") =>
          IF cur(p) \notin {";", "EOF"} /\ ~tokens[p.pos].lb
          THEN p'.events = Append(p.events, [t |-> "Error", msg |-> SemiMsg,
                                             primary |-> TokRange(p.pos),
                                             secondary |-> <<Top.err_range>>, help |-> ""])
          ELSE Errors(p') = Errors(p)]_vars

SemiDiagnosticWitness ==
    /\ Running /\ Top.rule # "semi" /\ Len(p.events) > 0
    /\ HasMsg(p.events[Len(p.events)], SemiMsg)
    /\ cur(p) \notin {";", "EOF"} /\ ~tokens[p.pos].lb

\* C8: semi consumes one token when the current token is ; and none otherwise:
\* an inserted semicolon adds no Token event and no node, and the only event
\* semi adds besides the Token of a real ; is its diagnostic.
SemiConsumes ==
    [][In("semi", "entry") =>
          /\ p'.state = p.state
          /\ IF cur(p) = ";"
             THEN p'.pos = p.pos + 1 /\ p'.events = Append(p.events, TokenEv(p.pos))
             ELSE /\ p'.pos = p.pos
                  /\ \/ p'.events = p.events
                     \/ /\ Len(p'.events) = Len(p.events) + 1
                        /\ SubSeq(p'.events, 1, Len(p.events)) = p.events
                        /\ p'.events[Len(p'.events)].t = "Error"]_vars

\* A semicolon was inserted before a token on a new line: nothing was consumed.
SemiConsumesWitness ==
    /\ In("stmt", "expr_after_semi")
    /\ ~at(p, "EOF") /\ has_linebreak_before_n(p, 0)
    /\ p.events[Len(p.events)] = FinishEv

ReturnMsg == "Illegal return statement outside of a function"

Kinds(evs) == [i \in 1..Len(evs) |-> evs[i].kind]

\* The kinds of the tokens of a whole return statement.
ReturnShapes ==
    {<<"return">>, <<"return", ";">>}
    \cup {<<"return", k>> : k \in STARTS_EXPR}
    \cup {<<"return", k, ";">> : k \in STARTS_EXPR}

\* C9: return_stmt consumes the whole return statement and completes a
\* RETURN_STMT node; it emits one "Illegal return statement" error, whose
\* primary span is the range of the completed node, exactly when in_function
\* is false, and no such error when in_function is true.
ReturnChecked ==
    [][In("return_stmt", "after_semi") =>
          /\ p'.pos = p.pos
          /\ Kinds(SelectSeq(SubSeq(p.events, Top.m, Len(p.events)), IsToken)) \in ReturnShapes
          /\ cur(p) = ";" => tokens[p.pos - 1].kind = ";"
          /\ p'.events[Top.m] = StartEv("RETURN_STMT")
          /\ p'.events[Len(p.events) + 1] = FinishEv
          /\ ret'.some /\ ret'.v.kind = "RETURN_STMT" /\ ret'.v.start_pos = Top.m
          /\ IF p.state.in_function
             THEN Len(p'.events) = Len(p.events) + 1
             ELSE /\ Len(p'.events) = Len(p.events) + 2
                  /\ p'.events[Len(p.events) + 2] =
                        [t |-> "Error", msg |-> ReturnMsg,
                         primary |-> R(p.events[Top.m + 1].range.start, TokRange(p.pos - 1).end),
                         secondary |-> <<>>, help |-> ""]]_vars

\* A return statement of several tokens was reported outside of a function.
ReturnCheckedWitness ==
    /\ ret.some /\ "kind" \in DOMAIN ret.v /\ ret.v.kind = "RETURN_STMT"
    /\ Len(p.events) = ret.v.finish_pos + 1
    /\ HasMsg(p.events[Len(p.events)], ReturnMsg)
    /\ p.events[Len(p.events)].primary.end > p.events[Len(p.events)].primary.start + 1

MultiDefaultMsg == "Multiple default clauses inside of a switch statement are not allowed"

\* The events that are children of the node started at m, which is open.
Children(m) ==
    {i \in (m + 1)..Len(p.events) : Depth(p.events, i - 1) = Depth(p.events, m)}

\* The default keywords of the clauses of the switch statement started at m.
DefaultTokens(m) ==
    {i \in Children(m) : p.events[i].t = "Token" /\ p.events[i].kind = "default"}

MultiDefaultErrors(m) == {i \in Children(m) : HasMsg(p.events[i], MultiDefaultMsg)}

FirstDefault(m) == CHOOSE i \in DefaultTokens(m) : \A j \in DefaultTokens(m) : i <= j

DefaultsCounted(m) ==
    IF DefaultTokens(m) = {} THEN MultiDefaultErrors(m) = {}
    ELSE /\ Cardinality(MultiDefaultErrors(m)) = Cardinality(DefaultTokens(m)) - 1
         /\ \A i \in MultiDefaultErrors(m) :
               /\ Len(p.events[i].secondary) = 1
               /\ p.events[i].secondary[1].start = p.events[FirstDefault(m)].range.start
               /\ p.events[i].secondary[1] = Top.first_default.v
         /\ {p.events[i].primary.start : i \in MultiDefaultErrors(m)} =
               {p.events[j].range.start : j \in DefaultTokens(m) \ {FirstDefault(m)}}

ClauseKind(k) == IF k = "case" THEN "CASE_CLAUSE" ELSE "DEFAULT_CLAUSE"

\* C11: every clause of a switch statement is a node of its own: when a case
\* or default clause has been parsed, its keyword is the first child of a
\* CASE_CLAUSE or DEFAULT_CLAUSE node that ends where the clause ends.
ClauseNodes ==
    In("switch_stmt", "after_clause") /\ tokens[Top.iter_pos].kind \in {"case", "default"} =>
        \E i \in 2..Len(p.events) :
            /\ p.events[i] = TokenEv(Top.iter_pos)
            /\ p.events[i - 1] = StartEv(ClauseKind(tokens[Top.iter_pos].kind))
            /\ p.events[Len(p.events)] = FinishEv
            /\ Depth(p.events, Len(p.events)) = Depth(p.events, i - 2)

DuplicateMsg == "Duplicate statement labels are not allowed"

LabelledFrames == {i \in 1..Len(stack) : stack[i].rule = "stmt" /\ stack[i].pc = "labelled_after"}

\* C12: a labelled statement whose label is in the label map already emits
\* one "Duplicate statement labels" error with the recorded range of the
\* earlier declaration as secondary span; the label stays in the map, the
\* sub-statement is parsed and the node is completed as LABELLED_STMT.
DuplicateLabel ==
    [][/\ /\ AtStmt({"expr"}) /\ at(p, "ident") /\ nth_at(p, 1, ":")
          /\ labels_get(p.state, cur_src(p)) # {}
          => /\ Len(Errors(p')) = Len(Errors(p)) + 1
             /\ \E l \in labels_get(p.state, cur_src(p)) :
                   p'.events[Len(p'.events) - 1] =
                       [t |-> "Error", msg |-> DuplicateMsg, primary |-> TokRange(p.pos + 1),
                        secondary |-> <<l.range>>, help |-> ""]
             /\ labels_get(p'.state, cur_src(p)) = labels_get(p.state, cur_src(p))
             /\ p'.pos = p.pos + 2
             /\ stack'[Len(stack')] = StmtFrame
             /\ stack'[Len(stack')- 1].pc = "labelled_after"
       /\ In("stmt", "labelled_after")
          => /\ p'.events[Top.m] = StartEv("LABELLED_STMT")
             /\ p'.events[Len(p'.events)] = FinishEv
             /\ ret'.some /\ ret'.v.kind = "LABELLED_STMT"]_vars

\* The statement of a label is parsed inside the statement of the same label.
DuplicateLabelWitness ==
    /\ \E i \in LabelledFrames, j \in LabelledFrames : i < j /\ LabelOf(stack[i]) = LabelOf(stack[j])
    /\ In("stmt", "entry")
    /\ HasMsg(p.events[Len(p.events) - 1], DuplicateMsg)

ThrowMsg == "Linebreaks between a throw statement and the error to be thrown are not allowed"

ThrowErrors(q) == {i \in 1..Len(q.events) : HasMsg(q.events[i], ThrowMsg)}

\* C13: when a linebreak precedes the token after throw, throw_stmt emits one
\* "Linebreaks between a throw statement..." error and parses no expression,
\* so that the tokens after throw are left; otherwise it parses an expression
\* and emits no such error; the node is completed as THROW_STMT.
ThrowLinebreak ==
    [][/\ AtStmt({"throw"})
          => IF has_linebreak_before_n(p, 1)
             THEN /\ p'.pos = p.pos + 1
                  /\ Len(p'.events) = Len(p.events) + 3
                  /\ SubSeq(p'.events, 1, Len(p.events) + 2) =
                        p.events \o <<StartEv("TOMBSTONE"), TokenEv(p.pos)>>
                  /\ HasMsg(p'.events[Len(p'.events)], ThrowMsg)
                  /\ p'.events[Len(p'.events)].primary = TokRange(p.pos + 1)
             ELSE /\ ThrowErrors(p') = ThrowErrors(p)
                  /\ nth(p, 1) \in STARTS_EXPR =>
                        /\ p'.pos = p.pos + 2
                        /\ p'.events = p.events \o
                              <<StartEv("TOMBSTONE"), TokenEv(p.pos),
                                StartEv(IF nth(p, 1) = "ident" THEN "NAME" ELSE "LITERAL"),
                                TokenEv(p.pos + 1), FinishEv>>
       /\ In("throw_stmt", "after_semi")
          => /\ p'.events[Top.m] = StartEv("THROW_STMT")
             /\ p'.events[Len(p'.events)] = FinishEv
             /\ ret'.some /\ ret'.v.kind = "THROW_STMT"]_vars

\* The linebreak was reported and the expression after it was left.
ThrowLinebreakWitness ==
    /\ In("semi", "entry") /\ stack[Len(stack) - 1].rule = "throw_stmt"
    /\ HasMsg(p.events[Len(p.events)], ThrowMsg)
    /\ at_ts(p, STARTS_EXPR)

\* The child at i is an expression statement that is one string literal.
StringStmt(i) ==
    /\ p.events[i] = StartEv("EXPR_STMT")
    /\ p.events[i + 1] = StartEv("LITERAL")
    /\ p.events[i + 2].t = "Token" /\ p.events[i + 2].kind = "string"

\* C14: in block_items a "use strict" statement switches the state to strict
\* mode only if every statement before it in the block is an expression
\* statement that is a single string literal.
PrologueBoundary ==
    [][In("block_items", "after") /\ ~p.state.strict /\ p'.state.strict =>
          \A i \in Children(stack[Len(stack) - 1].m) :
              i < ret.v.start_pos => IsToken(p.events[i]) \/ StringStmt(i)]_vars

\* The statements of a block that are being parsed in strict mode.
StrictItems ==
    {i \in 1..Len(stack) :
        stack[i].rule = "block_items" /\ stack[i].pc = "after" /\ stack[i].iter_state.strict}

\* C15: once a "use strict" directive has made the state of a block strict,
\* strict is true during the parse of every following statement of the
\* block, the statements nested in them and their derived states included.
StrictPersists == StrictItems # {} => p.state.strict

\* The body of a loop in a with statement that follows the directive.
StrictPersistsWitness ==
    /\ In("stmt", "entry") /\ p.state.strict
    /\ stack[2].rule = "block_items" /\ stack[2].iter_state.strict /\ ~stack[2].old.strict
    /\ \E i \in 1..Len(stack) : stack[i].rule = "with_stmt"
    /\ \E i \in 1..Len(stack) : stack[i].rule = "while_stmt"

\* C16: a for-in or for-of statement over one declarator without
\* initializer, its binding an identifier or a destructuring pattern, makes
\* the parse emit no Error event.
ForEachClean ==
    Done /\ Body \in ForEachPrograms => Errors(p) = <<>>

BreakMsg == "Invalid break not inside of a switch, loop, or labelled statement"

ContinueMsg == "Invalid continue not inside of a loop"

JumpErrors(q) == {i \in 1..Len(q.events) : HasMsg(q.events[i], BreakMsg) \/ HasMsg(q.events[i], ContinueMsg)}

\* C17: break_stmt emits the "Invalid break..." error if and only if
\* break_allowed is false and the break statement is not inside a labelled
\* statement; a break after a completed labelled statement, outside any loop
\* or switch, is reported.
BreakReported ==
    [][In("break_stmt", "after_semi") =>
          (JumpErrors(p') # JumpErrors(p)
              <=> ~p.state.break_allowed /\ LabelledFrames = {})]_vars

\* C18: the primary span of an invalid-break or invalid-continue error starts
\* at the keyword and ends at the end of the last token the statement
\* consumed: it does not reach into the token that follows the statement.
JumpSpan ==
    [][In("break_stmt", "after_semi") \/ In("continue_stmt", "after_semi") =>
          \A i \in JumpErrors(p') \ JumpErrors(p) :
              /\ p'.events[i].primary.start = Top.start
              /\ p'.events[i].primary.end >= TokRange(p.pos - 1).end
              /\ p'.events[i].primary.end <= TokRange(p.pos).start]_vars

LoopRules == {"while_stmt", "do_stmt", "for_stmt"}

IterationFlags(st) == <<st.break_allowed, st.continue_allowed>>

\* C19: a loop rule (while_stmt, do_stmt, for_stmt), when it returns after
\* its body, leaves break_allowed and continue_allowed as they were at entry
\* to the rule.
LoopFlagsRestored ==
    [][Top.rule \in LoopRules /\ Top.pc = "after_body" =>
          IterationFlags(p'.state) = IterationFlags(Top.original_state)]_vars

\* C20: when block_items returns, at } or at EOF, the parser state -- strict
\* mode set by a directive of the block, labels inserted in the block and the
\* break and continue flags included -- is the state at entry to block_items.
BlockItemsRestores ==
    /\ In("parse", "after") => p.state = DefaultState(p.state.is_module)
    /\ In("block_stmt", "after_items") => p.state = Top.entry_state

BlockItemsRestoresWitness ==
    /\ In("block_stmt", "after_items")
    /\ stack[Len(stack) - 1].rule = "function_decl"
    /\ ~p.state.strict /\ p.state.labels = {}
    /\ \E i \in Children(Top.m) :
          StringStmt(i) /\ tokens[TokIndex(p.events[i + 2].range)].src = "use strict"
    /\ \E i \in Children(Top.m) : p.events[i] = StartEv("LABELLED_STMT")

\* C21: every statement of a switch clause is parsed with break_allowed true
\* and continue_allowed as it was when the clause was entered, and when the
\* clause has returned break_allowed is what it was before the clause.
ClauseFlags ==
    [][/\ In("stmt", "entry") /\ stack[Len(stack) - 1].rule = "switch_clause" =>
             /\ p.state.break_allowed
             /\ p.state.continue_allowed = stack[Len(stack) - 2].original_state.continue_allowed
       /\ In("switch_stmt", "after_clause") =>
             p'.state.break_allowed = Top.original_state.break_allowed]_vars

IllegalMsg(k) == IF k = "import"
                 THEN "Illegal use of an import declaration outside of a module"
                 ELSE "Illegal use of an export declaration outside of a module"

IllegalErrors(q) ==
    {i \in 1..Len(q.events) :
        HasMsg(q.events[i], IllegalMsg("import")) \/ HasMsg(q.events[i], IllegalMsg("export"))}

\* The declaration parser of the module item at the cursor, in module mode.
InModule(q) ==
    IF at(q, "import") THEN import_decl([q EXCEPT !.state.is_module = TRUE]).q
    ELSE export_decl([q EXCEPT !.state.is_module = TRUE]).q

DeclKind(k) == IF k = "import" THEN "IMPORT_DECL" ELSE "EXPORT_DECL"

\* C22: for an import or export declaration met in block_items, one "Illegal
\* use..." error with the script-mode note is emitted and the node becomes
\* ERROR if and only if is_module is false; in module mode no error is
\* emitted and the kind stays; the tokens consumed and the cursor afterwards
\* are those of module mode.
ModuleItems ==
    [][In("block_items", "loop") /\ block_items_continue(p) /\ cur(p) \in {"import", "export"} =>
          /\ p'.pos = InModule(p).pos
          /\ TokenEvents(p') = TokenEvents(InModule(p))
          /\ ret'.some /\ p'.events[ret'.v.start_pos].kind = ret'.v.kind
          /\ IF p.state.is_module
             THEN /\ IllegalErrors(p') = IllegalErrors(p)
                  /\ ret'.v.kind = DeclKind(cur(p))
             ELSE /\ IllegalErrors(p') = IllegalErrors(p) \cup {Len(p'.events)}
                  /\ Len(Errors(p')) = Len(Errors(p)) + 1
                  /\ HasMsg(p'.events[Len(p'.events)], IllegalMsg(cur(p)))
                  /\ p'.events[Len(p'.events)].help = "Note: the parser is configured for scripts, not modules"
                  /\ ret'.v.kind = "ERROR"]_vars

ModuleItemsWitness ==
    /\ In("block_items", "after") /\ ~p.state.is_module
    /\ tokens[Top.iter_pos].kind = "export"
    /\ ret.some /\ ret.v.kind = "ERROR" /\ p.events[ret.v.start_pos].kind = "ERROR"
    /\ HasMsg(p.events[Len(p.events)], IllegalMsg("export"))
    /\ p.pos > Top.iter_pos + 1

ObjectMsg == "Object and Array patterns require initializers"

ConstMsg == "Const var declarations must have an initialized value"

\* The completed Declarator nodes, by their Start event.
Declarators == {i \in 1..Len(p.events) : p.events[i] = StartEv("DECLARATOR")}

\* The Finish event of the node started at i.
End(i) ==
    CHOOSE j \in (i + 1)..Len(p.events) :
        /\ p.events[j].t = "Finish" /\ Depth(p.events, j) = Depth(p.events, i - 1)
        /\ \A k \in (i + 1)..(j - 1) : Depth(p.events, k) > Depth(p.events, i - 1)

HasInit(i) == \E j \in i..End(i) : p.events[j].t = "Token" /\ p.events[j].kind = "="

\* The kind of the pattern node of declarator i, "" when no pattern was parsed.
PatKind(i) == IF p.events[i + 1].t = "Start" THEN p.events[i + 1].kind ELSE ""

InitErrors(i, msg) == {j \in i..End(i) : HasMsg(p.events[j], msg)}

\* The Start event of the declaration that declarator i belongs to.
DeclOf(i) ==
    CHOOSE k \in 1..i :
        /\ p.events[k].t = "Start" /\ p.events[k].kind = "VAR_DECL"
        /\ \A l \in (k + 1)..i : ~(p.events[l].t = "Start" /\ p.events[l].kind = "VAR_DECL")

IsConst(i) == p.events[DeclOf(i) + 1].t = "Token" /\ p.events[DeclOf(i) + 1].kind = "const"

\* The last event before k that is not an Error event, 0 if none.
Before(k) ==
    IF \E l \in 1..(k - 1) : ~IsError(p.events[l])
    THEN CHOOSE l \in 1..(k - 1) :
            ~IsError(p.events[l]) /\ \A n \in (l + 1)..(k - 1) : IsError(p.events[n])
    ELSE 0

IsTok(l, kinds) == l > 0 /\ p.events[l].t = "Token" /\ p.events[l].kind \in kinds

\* The declaration of declarator i is the head of a for statement.
InForHead(i) ==
    \/ IsTok(Before(DeclOf(i)), {"for", "await"})
    \/ IsTok(Before(DeclOf(i)), {"("}) /\ IsTok(Before(Before(DeclOf(i))), {"for", "await"})

Initialized(i) == InitErrors(i, ObjectMsg) = {} /\ InitErrors(i, ConstMsg) = {}

ConstChecked(i) ==
    /\ InitErrors(i, ObjectMsg) = {}
    /\ Cardinality(InitErrors(i, ConstMsg)) = (IF IsConst(i) /\ ~InForHead(i) THEN 1 ELSE 0)

\* C23: a declarator followed by = emits no initializer diagnostic; without =
\* it emits "Object and Array patterns require initializers" when its
\* pattern is a destructuring pattern, and otherwise "Const var declarations
\* must have an initialized value" if and only if const was consumed and the
\* declaration is not a for head; at most one of the two per declarator.
DeclaratorChecks ==
    Done => \A i \in Declarators :
        IF HasInit(i) THEN Initialized(i)
        ELSE IF PatKind(i) \in {"OBJECT_PATTERN", "ARRAY_PATTERN"}
        THEN Cardinality(InitErrors(i, ObjectMsg)) = 1 /\ InitErrors(i, ConstMsg) = {}
        ELSE ConstChecked(i)

\* C23, amended: as above, the const check being made only when a pattern was
\* parsed; a declarator without pattern emits neither diagnostic.
DeclaratorChecksPattern ==
    Done => \A i \in Declarators :
        IF HasInit(i) THEN Initialized(i)
        ELSE IF PatKind(i) \in {"OBJECT_PATTERN", "ARRAY_PATTERN"}
        THEN Cardinality(InitErrors(i, ObjectMsg)) = 1 /\ InitErrors(i, ConstMsg) = {}
        ELSE IF PatKind(i) = "SINGLE_PATTERN" THEN ConstChecked(i)
        ELSE Initialized(i)

DeclaratorChecksWitness ==
    /\ Done
    /\ \E i \in Declarators : HasInit(i) /\ IsConst(i)
    /\ \E i \in Declarators : ~HasInit(i) /\ PatKind(i) = "OBJECT_PATTERN"
                              /\ InitErrors(i, ObjectMsg) # {}
    /\ \E i \in Declarators : ~HasInit(i) /\ PatKind(i) = "SINGLE_PATTERN"
                              /\ InitErrors(i, ConstMsg) # {}

\* The token events that are children of the open node started at m.
DirectTokens(m) == {i \in Children(m) : IsToken(p.events[i])}

\* The tokens of the for statement started at m after for and (.
HeadTokens(m) ==
    {i \in DirectTokens(m) : i > (IF IsTok(m + 2, {"("}) THEN m + 2 ELSE m + 1)}

IsOf(i) == p.events[i].kind = "ident" /\ tokens[TokIndex(p.events[i].range)].src = "of"

FirstKind(toks) ==
    IF toks = {} THEN "FOR_STMT"
    ELSE IF \E i \in toks : p.events[i].kind = "in" /\ \A j \in toks : i <= j
    THEN "FOR_IN_STMT"
    ELSE IF \E i \in toks : IsOf(i) /\ \A j \in toks : i <= j
    THEN "FOR_OF_STMT"
    ELSE "FOR_STMT"

\* C24: for_stmt completes its node as FOR_IN_STMT exactly when the initial
\* declaration or expression of the head is followed by the in token, as
\* FOR_OF_STMT exactly when it is followed by the identifier of, and as
\* FOR_STMT otherwise, an empty init included; also when (, ; or ) is
\* missing.
ForKind ==
    [][In("for_stmt", "after_body") =>
          /\ p'.events[Top.m].kind = FirstKind(HeadTokens(Top.m))
          /\ p'.events[Len(p'.events)] = FinishEv
          /\ ret' = SomeV([kind |-> FirstKind(HeadTokens(Top.m)), start_pos |-> Top.m,
                           finish_pos |-> Len(p'.events)])]_vars

ForKindWitness ==
    /\ In("for_stmt", "after_body")
    /\ ~IsTok(Top.m + 2, {"("})
    /\ Top.kind = "FOR_OF_STMT"
    /\ \E i \in HeadTokens(Top.m) : IsOf(i)

CatchMsg == "Expected an identifier for the error in a catch clause, but found none"

CatchErrors(q) == {i \in 1..Len(q.events) : HasMsg(q.events[i], CatchMsg)}

\* The token where the binding of the catch clause at the cursor would be.
BindingPos == IF tokens[p.pos + 1].kind = "(" THEN p.pos + 2 ELSE p.pos + 1

BindingExpected == tokens[p.pos + 1].kind = "(" \/ tokens[p.pos + 1].kind # "{"

ClosePos(n) == IF tokens[n].kind = ")" THEN n + 1 ELSE n

NameEvents(n) == <<StartEv("NAME"), TokenEv(n), FinishEv>>

CatchNodes(q) == {i \in 1..Len(q.events) : q.events[i] = StartEv("CATCH_CLAUSE")}

\* C25: catch_clause completes one CATCH_CLAUSE node that holds a block; it
\* parses a binding if and only if ( was consumed or the token after catch is
\* not {; when a binding is expected and the token is not an identifier, one
\* "Expected an identifier for the error in a catch clause" error is emitted
\* and no token is consumed for the name.
CatchBinding ==
    [][/\ In("catch_clause", "entry") =>
             IF ~BindingExpected
             THEN p'.pos = p.pos + 1 /\ p'.events = p.events \o <<StartEv("TOMBSTONE"), TokenEv(p.pos)>>
             ELSE IF tokens[BindingPos].kind = "ident"
             THEN /\ p'.pos = ClosePos(BindingPos + 1)
                  /\ CatchErrors(p') = CatchErrors(p)
                  /\ \E i \in 1..Len(p'.events) : SubSeq(p'.events, i, i + 2) = NameEvents(BindingPos)
             ELSE /\ p'.pos = ClosePos(BindingPos)
                  /\ Cardinality(CatchErrors(p')) = Cardinality(CatchErrors(p)) + 1
                  /\ \A i \in CatchErrors(p') \ CatchErrors(p) :
                        p'.events[i].primary = TokRange(BindingPos)
                  /\ \A i \in (Len(p.events) + 1)..Len(p'.events) : p'.events[i] # StartEv("NAME")
       /\ In("catch_clause", "after_block") =>
             /\ ret.some /\ ret.v.kind = "BLOCK_STMT" /\ ret.v.start_pos \in Children(Top.m)
             /\ CatchNodes(p') = CatchNodes(p) \cup {Top.m}
             /\ Top.m \notin CatchNodes(p)
             /\ p'.events[Len(p'.events)] = FinishEv]_vars

CatchBindingWitness ==
    /\ In("catch_clause", "after_block")
    /\ p.events[Top.m + 2].t = "Error" /\ HasMsg(p.events[Top.m + 2], CatchMsg)
    /\ \E i \in Children(Top.m) : IsTok(i, {")"})
    /\ ret.some /\ ret.v.kind = "BLOCK_STMT"

\* The cursor is at async function with no linebreak between the two.
AtAsyncFunction ==
    /\ tokens[p.pos].kind = "ident" /\ tokens[p.pos].src = "async"
    /\ tokens[p.pos + 1].kind = "function" /\ ~tokens[p.pos + 1].lb

AsyncFrames == {i \in 1..Len(stack) : stack[i].rule = "stmt" /\ stack[i].pc = "async_after"}

\* C26: stmt takes the async function path if and only if the current token
\* is the identifier async, the next token is function and no linebreak
\* precedes that function token; on that path the function declaration is
\* parsed with in_async true, and when stmt returns in_async is what it was
\* at entry; with a linebreak before function, async is parsed as an
\* expression statement.
AsyncFunction ==
    [][/\ In("stmt", "entry") =>
             IF AtAsyncFunction
             THEN /\ p'.pos = p.pos + 1 /\ p'.state.in_async
                  /\ p'.events = p.events \o <<StartEv("TOMBSTONE"), TokenEv(p.pos)>>
                  /\ stack'[Len(stack')] = [rule |-> "function_decl", pc |-> "entry", m |-> Mark(p)]
                  /\ Len(stack) \in AsyncFrames'
             ELSE /\ AsyncFrames' = AsyncFrames
                  /\ p'.state.in_async = p.state.in_async
                  /\ tokens[p.pos].src = "async" /\ tokens[p.pos + 1].kind = "function" =>
                        /\ p'.pos = p.pos + 1
                        /\ stack'[Len(stack') - 1].pc = "expr_after_semi"
                        /\ SubSeq(p'.events, Len(p.events) + 1, Len(p'.events)) =
                              <<StartEv("TOMBSTONE")>> \o NameEvents(p.pos)
       /\ AsyncFrames # {} /\ ~In("stmt", "async_after") => p.state.in_async
       /\ In("stmt", "async_after") =>
             /\ p'.state.in_async = Top.original_state.in_async
             /\ ret' = ret /\ ret.some /\ ret.v.kind = "FN_DECL"]_vars

AsyncFunctionWitness ==
    /\ In("stmt", "entry") /\ Len(stack) = 3
    /\ ~p.state.in_async
    /\ tokens[p.pos].src = "async" /\ tokens[p.pos + 1].kind = ";"
    /\ ret.some /\ ret.v.kind = "FN_DECL"
    /\ p.events[ret.v.start_pos + 1] = TokenEv(1) /\ tokens[1].src = "async"

====
